---- MODULE Spec2Model ----
(***************************************************************************)
(* The checkpoint directory manager of python/paddle/fluid/io.py:          *)
(* save_checkpoint, clean_checkpoint, get_latest_checkpoint_serial and the *)
(* helpers they call, over an explicit directory tree.                     *)
(*                                                                         *)
(* A file or directory name is a sequence of pieces, so that str.split,    *)
(* int() and str() are computed piece by piece.  A piece is one character  *)
(* (a separator, a sign, a digit, a letter) or a word: a run of letters    *)
(* holding no separator, sign or digit ("checkpoint", "notes").  Variable  *)
(* names, which are searched for substrings, are spelled character by      *)
(* character.  A path is a sequence of names below the working directory.  *)
(***************************************************************************)
EXTENDS Integers, Sequences, FiniteSets, TLC

\* ------------------------------------------------------------ bounds
\* save_checkpoint calls started in one behaviour of Spec and SpecRound.
MaxCalls == 2
\* save_checkpoint calls started in one behaviour of SpecChief.
MaxChiefSaves == 4
\* Entries not written by this module that the root may hold at one time.
MaxStray == 1
\* Rounds of training a process goes through in one behaviour of SpecLoad.
MaxTrain == 1
\* save_checkpoint calls started in one behaviour of SpecLoad.
MaxLoadSaves == 1
\* Evaluations of a helper function on one input in one behaviour.
MaxEvals == 2
\* save_checkpoint calls started in one behaviour of SpecArgs.
MaxArgSaves == 2

\* ------------------------------------------------------------ constants
SUCCESS_MARK_FILENAME == <<"_", "SUCCESS">>
CHECKPOINT_PREFIX == <<"checkpoint">>
MODEL_DIR == <<"_", "_", "model", "_", "_">>
TRAINER_PREFIX == <<"trainer">>
CHECKPOINT_SEPARATOR == "_"

\* ------------------------------------------------------------ str, int, split
Digits == <<"0", "1", "2", "3", "4", "5", "6", "7", "8", "9">>

IsDigit(c) == \E i \in 1..10 : Digits[i] = c

DigitValue(c) == (CHOOSE i \in 1..10 : Digits[i] = c) - 1

RECURSIVE PyStr(_)
\* str(n) of a Python int: decimal digits, a leading "-" when negative.
PyStr(n) ==
    IF n < 0 THEN <<"-">> \o PyStr(-n)
    ELSE IF n < 10 THEN <<Digits[n + 1]>>
    ELSE PyStr(n \div 10) \o <<Digits[(n % 10) + 1]>>

RECURSIVE DigitsValue(_)
DigitsValue(s) ==
    IF s = <<>> THEN 0
    ELSE 10 * DigitsValue(SubSeq(s, 1, Len(s) - 1)) + DigitValue(s[Len(s)])

\* int(s) of a Python 2 str over this alphabet (no blanks occur in it): an
\* optional sign and at least one digit, otherwise ValueError.
PyInt(s) ==
    LET signed == s # <<>> /\ s[1] \in {"-", "+"}
        body == IF signed THEN Tail(s) ELSE s
        ok == body # <<>> /\ \A i \in 1..Len(body) : IsDigit(body[i])
    IN  IF ~ok THEN [raised |-> TRUE, val |-> 0]
        ELSE [raised |-> FALSE,
              val |-> IF signed /\ s[1] = "-" THEN 0 - DigitsValue(body)
                      ELSE DigitsValue(body)]

RECURSIVE PySplit(_, _)
\* s.split(sep) for a one-character sep: the pieces between the separators,
\* empty pieces included.
PySplit(s, sep) ==
    IF \A i \in 1..Len(s) : s[i] # sep THEN <<s>>
    ELSE LET i == CHOOSE j \in 1..Len(s) :
                      s[j] = sep /\ \A m \in 1..(j - 1) : s[m] # sep
         IN  <<SubSeq(s, 1, i - 1)>> \o PySplit(SubSeq(s, i + 1, Len(s)), sep)

\* string.whitespace
Whitespace == {" ", "\t", "\n", "\r"}

RECURSIVE PyLStrip(_)
PyLStrip(s) ==
    IF s # <<>> /\ Head(s) \in Whitespace THEN PyLStrip(Tail(s)) ELSE s

RECURSIVE PyRStrip(_)
PyRStrip(s) ==
    IF s # <<>> /\ s[Len(s)] \in Whitespace
    THEN PyRStrip(SubSeq(s, 1, Len(s) - 1)) ELSE s

\* s.strip(): s without the whitespace it starts and ends with.
PyStrip(s) == PyRStrip(PyLStrip(s))

\* sub in s, for Python strs.
PyContains(s, sub) ==
    \E i \in 1..(Len(s) - Len(sub) + 1) : SubSeq(s, i, i + Len(sub) - 1) = sub

\* ------------------------------------------------------------ directory tree
\* A node is a directory (its entries: a function from names to nodes), a
\* file (its data) or nothing.
NoNode == [none |-> TRUE]

EmptyDir == [ents |-> <<>>]

FileNode(d) == [data |-> d]

IsDirNode(node) == "ents" \in DOMAIN node

IsFileNode(node) == "data" \in DOMAIN node

RECURSIVE Lookup(_, _)
Lookup(node, path) ==
    IF path = <<>> THEN node
    ELSE IF ~IsDirNode(node) THEN NoNode
    ELSE IF Head(path) \notin DOMAIN node.ents THEN NoNode
    ELSE Lookup(node.ents[Head(path)], Tail(path))

\* os.path.isdir, os.path.isfile, os.path.join, os.listdir
IsDir(tree, path) == IsDirNode(Lookup(tree, path))

IsFile(tree, path) == IsFileNode(Lookup(tree, path))

Join(path, name) == Append(path, name)

\* The names in a directory (asked of directories only).
ListDir(tree, path) == DOMAIN Lookup(tree, path).ents

WithEntry(ents, name, node) ==
    [n \in (DOMAIN ents) \cup {name} |-> IF n = name THEN node ELSE ents[n]]

WithoutEntry(ents, name) == [n \in (DOMAIN ents) \ {name} |-> ents[n]]

RECURSIVE Put(_, _, _)
\* The tree with the node at path replaced; the directories above it exist.
Put(node, path, new) ==
    IF path = <<>> THEN new
    ELSE [node EXCEPT !.ents =
              WithEntry(node.ents, Head(path),
                        Put(Lookup(node, <<Head(path)>>), Tail(path), new))]

RECURSIVE MakeDirsFrom(_, _)
MakeDirsFrom(node, path) ==
    IF path = <<>> THEN node
    ELSE LET below == IF Head(path) \in DOMAIN node.ents
                      THEN node.ents[Head(path)] ELSE EmptyDir
         IN  [node EXCEPT !.ents =
                  WithEntry(node.ents, Head(path), MakeDirsFrom(below, Tail(path)))]

\* Some proper prefix of path, or path itself, is a file.
BlockedByFile(tree, path) ==
    \E i \in 1..Len(path) : IsFile(tree, SubSeq(path, 1, i))

\* os.makedirs(path): creates the directory and every missing parent; OSError
\* when the path exists already or runs through a file.
MakeDirs(tree, path) ==
    IF IsDir(tree, path) \/ BlockedByFile(tree, path)
    THEN [raised |-> TRUE, tree |-> tree]
    ELSE [raised |-> FALSE, tree |-> MakeDirsFrom(tree, path)]

Parent(path) == SubSeq(path, 1, Len(path) - 1)

\* open(path, 'w') ... write(data): IOError unless the parent is a directory
\* and path is no directory.
WriteFile(tree, path, data) ==
    IF ~IsDir(tree, Parent(path)) \/ IsDir(tree, path)
    THEN [raised |-> TRUE, tree |-> tree]
    ELSE [raised |-> FALSE, tree |-> Put(tree, path, FileNode(data))]

\* open(path, 'a') ... write(data): the file is created when absent; what it
\* holds is never read back, so an existing file keeps its data.
AppendFile(tree, path, data) ==
    IF ~IsDir(tree, Parent(path)) \/ IsDir(tree, path)
    THEN [raised |-> TRUE, tree |-> tree]
    ELSE IF IsFile(tree, path) THEN [raised |-> FALSE, tree |-> tree]
    ELSE [raised |-> FALSE, tree |-> Put(tree, path, FileNode(data))]

\* shutil.rmtree(path): OSError unless path is a directory.
RmTree(tree, path) ==
    IF ~IsDir(tree, path) THEN [raised |-> TRUE, tree |-> tree]
    ELSE [raised |-> FALSE,
          tree |-> Put(tree, Parent(path),
                       [Lookup(tree, Parent(path)) EXCEPT
                            !.ents = WithoutEntry(@, path[Len(path)])])]


\* ------------------------------------------------------------ inputs
\* The trainer processes; trainer 0 is the chief.
Trainers == {0, 1}

\* A checkpoint_dir argument: None, the empty str or the path of the root.
NoneDir == [isnone |-> TRUE, path |-> <<>>]

EmptyStrDir == [isnone |-> FALSE, path |-> <<>>]

RootDir == [isnone |-> FALSE, path |-> <<<<"ckpt">>>>]

\* A value of a trainer argument: an int, or a str spelled character by
\* character.
IntValue(n) == [isint |-> TRUE, int |-> n, chars |-> <<>>]

StrValue(s) == [isint |-> FALSE, int |-> 0, chars |-> s]

\* str(value)
str(value) == IF value.isint THEN PyStr(value.int) ELSE value.chars

\* A trainer_args argument: None or a dict from names to values.
NoneArgs == [isdict |-> FALSE, d |-> <<>>]

DictArgs(d) == [isdict |-> TRUE, d |-> d]

EpochArgs == DictArgs(<<"epoch">> :> IntValue(12))

\* The epoch and the step of a later round.
EpochStepArgs ==
    DictArgs((<<"epoch">> :> IntValue(13)) @@ (<<"step">> :> IntValue(5)))

\* A str argument that ends with a blank.
NoteArgs == DictArgs(<<"note">> :> StrValue(<<"r", "u", "n", " ">>))

\* The dicts of trainer arguments the trainers save.
ArgDicts == {EpochArgs, EpochStepArgs, NoteArgs}

\* The lists of names load_trainer_args is asked for.
KeyLists ==
    { <<>>, <<<<"epoch">>>>, <<<<"step">>>>, <<<<"note">>>>,
      <<<<"epoch">>, <<"step">>>>, <<<<"step">>, <<"epoch">>>> }

ArgChoices == {NoneArgs, EpochArgs}

\* The values of max_num_checkpoints the callers pass.
KeepChoices == {0, 1, 3}

\* Entries of the root that this module did not write.
StrayEntries ==
    (<<"notes", ".", "txt">> :> FileNode("text"))
    @@ (<<"my", "_", "notes">> :> FileNode("text"))
    @@ (<<"log", "_", "7">> :> FileNode("text"))
    @@ (<<"old", "_", "2">> :> EmptyDir)

\* main_program.list_vars(): the variables of the program, in order.
Program ==
    << [name |-> <<"w">>, type |-> "LOD_TENSOR", persistable |-> TRUE],
       [name |-> <<"w", "@", "G", "R", "A", "D">>, type |-> "LOD_TENSOR",
        persistable |-> TRUE],
       [name |-> <<"b">>, type |-> "LOD_TENSOR", persistable |-> TRUE],
       [name |-> <<"b", ".", "b", "l", "o", "c", "k", "0">>,
        type |-> "LOD_TENSOR", persistable |-> TRUE],
       [name |-> <<"w", ".", "t", "r", "a", "i", "n", "e", "r", "_", "0">>,
        type |-> "LOD_TENSOR", persistable |-> TRUE],
       [name |-> <<"f", "e", "e", "d">>, type |-> "FEED_MINIBATCH",
        persistable |-> TRUE],
       [name |-> <<"f", "e", "t", "c", "h">>, type |-> "FETCH_LIST",
        persistable |-> TRUE],
       [name |-> <<"r", "a", "w">>, type |-> "RAW", persistable |-> TRUE],
       [name |-> <<"t", "m", "p">>, type |-> "LOD_TENSOR",
        persistable |-> FALSE] >>

\* A main_program argument: None or a program.
NoneProgram == [isnone |-> TRUE, vars |-> <<>>]

MainProgram == [isnone |-> FALSE, vars |-> Program]

\* A program none of whose variables is checkpoint-eligible: a gradient, a
\* feed placeholder and a temporary.
BareProgram == [isnone |-> FALSE, vars |-> <<Program[2], Program[6], Program[9]>>]

\* A serial argument of load_checkpoint: None or an int.
NoneSerial == [isnone |-> TRUE, val |-> 0]

IntSerial(n) == [isnone |-> FALSE, val |-> n]

SerialChoices == {NoneSerial} \cup {IntSerial(n) : n \in (0 - 1)..1}

\* ------------------------------------------------------------ io.py helpers
\* _is_checkpoint_var as it would be if it looked for the gradient suffix at
\* the end of the name only, as its docstring says.
_is_checkpoint_var_grad_suffix(var) ==
    IF var.type \in {"FEED_MINIBATCH", "FETCH_LIST", "RAW"} THEN FALSE
    ELSE IF /\ Len(var.name) >= 5
            /\ SubSeq(var.name, Len(var.name) - 4, Len(var.name))
                   = <<"@", "G", "R", "A", "D">>
    THEN FALSE
    ELSE IF PyContains(var.name, <<".", "t", "r", "a", "i", "n", "e", "r", "_">>)
    THEN FALSE
    ELSE IF PyContains(var.name, <<".", "b", "l", "o", "c", "k">>) THEN FALSE
    ELSE var.persistable

_is_checkpoint_var(var) ==
    IF var.type \in {"FEED_MINIBATCH", "FETCH_LIST", "RAW"} THEN FALSE
    ELSE IF PyContains(var.name, <<"@", "G", "R", "A", "D">>) THEN FALSE
    ELSE IF PyContains(var.name, <<".", "t", "r", "a", "i", "n", "e", "r", "_">>)
    THEN FALSE
    ELSE IF PyContains(var.name, <<".", "b", "l", "o", "c", "k">>) THEN FALSE
    ELSE var.persistable

NotRaw(var) == var.type # "RAW"

\* save_vars(vars=filter(predicate, main_program.list_vars()), filename=None):
\* the variables a save op is appended for, in order.
save_vars(program) ==
    SelectSeq(SelectSeq(program, _is_checkpoint_var), NotRaw)

\* load_vars(vars=filter(predicate, main_program.list_vars()), filename=None):
\* the variables a load op is appended for, in order.
load_vars(program) ==
    SelectSeq(SelectSeq(program, _is_checkpoint_var), NotRaw)

\* The load op the executor runs for one variable: the data of the file at
\* path, and not-found when there is no such file.
LoadOp(tree, path) ==
    IF ~IsFile(tree, path) THEN [raised |-> TRUE, val |-> 0]
    ELSE [raised |-> FALSE, val |-> Lookup(tree, path).data]

\* The characters of variable names, in the order of their codes.
Ascii ==
    << ".", "0", "1", "2", "3", "4", "5", "6", "7", "8", "9", "@",
       "A", "D", "G", "R", "_", "a", "b", "c", "d", "e", "f", "h", "i", "k",
       "l", "m", "n", "o", "r", "t", "w", "x" >>

\* ord(c)
Ord(c) == CHOOSE i \in 1..Len(Ascii) : Ascii[i] = c

RECURSIVE PyLess(_, _)
\* a < b for Python 2 strs: the first character that differs decides, and a
\* str is above its proper prefixes.
PyLess(a, b) ==
    IF b = <<>> THEN FALSE
    ELSE IF a = <<>> THEN TRUE
    ELSE IF Head(a) # Head(b) THEN Ord(Head(a)) < Ord(Head(b))
    ELSE PyLess(Tail(a), Tail(b))

RECURSIVE Sorted(_)
\* sorted(names) for a set of strs.
Sorted(names) ==
    IF names = {} THEN <<>>
    ELSE LET least == CHOOSE n \in names : \A m \in names \ {n} : PyLess(n, m)
         IN  <<least>> \o Sorted(names \ {least})

\* _clone_var_in_block_(block, var): a variable of the same name and type,
\* persistable.
_clone_var_in_block_(var) == [var EXCEPT !.persistable = TRUE]

\* The clones of the variables in vars that are not of raw type, in order
\* (lines 102-106).
NewVars(vars) ==
    LET kept == SelectSeq(vars, NotRaw)
    IN  [i \in 1..Len(kept) |-> _clone_var_in_block_(kept[i])]

RECURSIVE SaveVarMap(_)
\* save_var_map once the loop over vars has run: for every name the variable
\* put under it last.
SaveVarMap(vars) ==
    IF vars = <<>> THEN <<>>
    ELSE LET last == vars[Len(vars)]
             rest == SaveVarMap(SubSeq(vars, 1, Len(vars) - 1))
         IN  [n \in (DOMAIN rest) \cup {last.name} |->
                  IF n = last.name THEN last ELSE rest[n]]

\* A filename argument: None or a name.
NoneFilename == [isnone |-> TRUE, name |-> <<>>]

Filename(name) == [isnone |-> FALSE, name |-> name]

\* save_program as it would be if save_combine took the variables in the
\* order they were supplied.
save_program_in_supply_order(dirname, vars, filename) ==
    LET kept == NewVars(vars)
    IN  IF filename.isnone
        THEN [i \in 1..Len(kept) |->
                  [type |-> "save", X |-> <<kept[i]>>,
                   file_path |-> Join(dirname, kept[i].name)]]
        ELSE << [type |-> "save_combine", X |-> kept,
                 file_path |-> Join(dirname, filename.name)] >>

\* save_vars(executor, dirname, vars=vars, filename=filename), lines 99-125:
\* the ops of save_program when it is handed to the executor.
save_program(dirname, vars, filename) ==
    LET kept == NewVars(vars)
        save_var_map == SaveVarMap(kept)
        names == Sorted(DOMAIN save_var_map)
    IN  IF filename.isnone
        THEN [i \in 1..Len(kept) |->
                  [type |-> "save", X |-> <<kept[i]>>,
                   file_path |-> Join(dirname, kept[i].name)]]
        ELSE << [type |-> "save_combine",
                 X |-> [i \in 1..Len(names) |-> save_var_map[names[i]]],
                 file_path |-> Join(dirname, filename.name)] >>

\* _get_dir_serial(dirname): the unpacking of the split raises ValueError
\* unless there are exactly two pieces; int() failing gives -1.
_get_dir_serial(dirname) ==
    LET parts == PySplit(dirname, CHECKPOINT_SEPARATOR)
    IN  IF Len(parts) # 2 THEN [raised |-> TRUE, val |-> 0]
        ELSE LET n == PyInt(parts[2])
             IN  [raised |-> FALSE, val |-> IF n.raised THEN 0 - 1 ELSE n.val]

SerialFolder(serial) ==
    CHECKPOINT_PREFIX \o <<CHECKPOINT_SEPARATOR>> \o PyStr(serial)

\* _get_serial_dir, _get_model_dir, _get_trainer_dir: the path, created when
\* it is no directory.
EnsureDir(tree, path) ==
    IF IsDir(tree, path) THEN [raised |-> FALSE, tree |-> tree, path |-> path]
    ELSE [raised |-> MakeDirs(tree, path).raised,
          tree |-> MakeDirs(tree, path).tree, path |-> path]

_get_serial_dir(tree, dirname, serial) ==
    EnsureDir(tree, Join(dirname, SerialFolder(serial)))

_get_model_dir(tree, dirname) == EnsureDir(tree, Join(dirname, MODEL_DIR))

_get_trainer_dir(tree, dirname, trainer_id) ==
    EnsureDir(tree, Join(dirname, TRAINER_PREFIX \o <<CHECKPOINT_SEPARATOR>>
                                  \o PyStr(trainer_id)))

_write_success(tree, dirname) ==
    AppendFile(tree, Join(dirname, SUCCESS_MARK_FILENAME), "ctime")

\* has_success as it would be if it did not look for the success mark: every
\* serial directory counts.
has_success_without_mark(tree, checkpoint_dir, cur_dir) ==
    LET s == _get_dir_serial(cur_dir)
        sd == _get_serial_dir(tree, checkpoint_dir, s.val)
    IN  IF s.raised
        THEN [raised |-> "ValueError: unpack", isnone |-> FALSE, val |-> 0,
              made |-> {}]
        ELSE IF s.val = 0 - 1 \/ ~IsDir(tree, Join(checkpoint_dir, cur_dir))
        THEN [raised |-> "none", isnone |-> FALSE, val |-> 0 - 1, made |-> {}]
        ELSE IF sd.raised
        THEN [raised |-> "OSError", isnone |-> FALSE, val |-> 0, made |-> {}]
        ELSE [raised |-> "none", isnone |-> FALSE, val |-> s.val,
              made |-> IF IsDir(tree, sd.path) THEN {} ELSE {sd.path}]

\* has_success(checkpoint_dir, cur_dir) on the tree as listed: the serial, or
\* None, with the directory _get_serial_dir creates on the way.
has_success(tree, checkpoint_dir, cur_dir) ==
    LET s == _get_dir_serial(cur_dir)
        sd == _get_serial_dir(tree, checkpoint_dir, s.val)
    IN  IF s.raised
        THEN [raised |-> "ValueError: unpack", isnone |-> FALSE, val |-> 0,
              made |-> {}]
        ELSE IF s.val = 0 - 1 \/ ~IsDir(tree, Join(checkpoint_dir, cur_dir))
        THEN [raised |-> "none", isnone |-> FALSE, val |-> 0 - 1, made |-> {}]
        ELSE IF sd.raised
        THEN [raised |-> "OSError", isnone |-> FALSE, val |-> 0, made |-> {}]
        ELSE [raised |-> "none",
              isnone |-> ~IsFile(tree, Join(Join(sd.path, MODEL_DIR),
                                            SUCCESS_MARK_FILENAME)),
              val |-> s.val,
              made |-> IF IsDir(tree, sd.path) THEN {} ELSE {sd.path}]

RECURSIVE MakeAll(_, _)
MakeAll(tree, paths) ==
    IF paths = {} THEN tree
    ELSE LET p == CHOOSE q \in paths : TRUE
         IN  MakeAll(EnsureDir(tree, p).tree, paths \ {p})

SetMax(S, least) ==
    IF S = {} THEN least ELSE CHOOSE x \in S : \A y \in S : y <= x

\* get_latest_checkpoint_serial(checkpoint_dir): the outcomes it can have.
\* os.listdir gives the entries in any order: when has_success raises for an
\* entry, the call ends there, and the directories made before it are those
\* of any set of the other entries.  Python 2 orders None below every int,
\* so None never replaces current_dir.
get_latest_checkpoint_serial(tree, checkpoint_dir) ==
    IF checkpoint_dir.isnone \/ checkpoint_dir.path = <<>>
       \/ ~IsDir(tree, checkpoint_dir.path)
    THEN {[raised |-> "none", val |-> 0 - 1, tree |-> tree]}
    ELSE LET root == checkpoint_dir.path
             dirs == ListDir(tree, root)
             hs(d) == has_success(tree, root, d)
             good == {d \in dirs : hs(d).raised = "none"}
             made(D) == UNION {hs(d).made : d \in D}
         IN  IF good # dirs
             THEN {[raised |-> hs(bad).raised, val |-> 0,
                    tree |-> MakeAll(tree, made(D))] :
                      bad \in dirs \ good, D \in SUBSET good}
             ELSE {[raised |-> "none",
                    val |-> SetMax({hs(d).val : d \in {e \in dirs : ~hs(e).isnone}},
                                   0 - 1),
                    tree |-> MakeAll(tree, made(dirs))]}

\* _scroll_delete(dirname, max_num_checkpoints) up to the loop that deletes:
\* the serials it will delete, highest first.
RECURSIVE Descending(_)
Descending(S) ==
    IF S = {} THEN <<>>
    ELSE <<SetMax(S, 0)>> \o Descending(S \ {SetMax(S, 0)})

RECURSIVE Reversed(_)
Reversed(seq) ==
    IF seq = <<>> THEN <<>> ELSE Append(Reversed(Tail(seq)), Head(seq))

\* _scroll_delete as it would be if the sort were not reversed: the lowest
\* serials are kept.
_scroll_delete_keeps_lowest(tree, dirname, max_num_checkpoints) ==
    IF ~IsDir(tree, dirname) THEN [raised |-> "OSError", serials |-> <<>>]
    ELSE LET dirs == ListDir(tree, dirname)
             keys == {_get_dir_serial(d).val : d \in dirs}
             serials == Reversed(Descending(keys))
         IN  IF \E d \in dirs : _get_dir_serial(d).raised
             THEN [raised |-> "ValueError: unpack", serials |-> <<>>]
             ELSE IF Cardinality(keys) <= max_num_checkpoints
             THEN [raised |-> "none", serials |-> <<>>]
             ELSE [raised |-> "none",
                   serials |-> SubSeq(serials, max_num_checkpoints + 1,
                                      Len(serials))]

_scroll_delete(tree, dirname, max_num_checkpoints) ==
    IF ~IsDir(tree, dirname) THEN [raised |-> "OSError", serials |-> <<>>]
    ELSE LET dirs == ListDir(tree, dirname)
             keys == {_get_dir_serial(d).val : d \in dirs}
             serials == Descending(keys)
         IN  IF \E d \in dirs : _get_dir_serial(d).raised
             THEN [raised |-> "ValueError: unpack", serials |-> <<>>]
             ELSE IF Cardinality(keys) <= max_num_checkpoints
             THEN [raised |-> "none", serials |-> <<>>]
             ELSE [raised |-> "none",
                   serials |-> SubSeq(serials, max_num_checkpoints + 1,
                                      Len(serials))]

\* ------------------------------------------------------------ state
VARIABLES
    fs,      \* the directory tree below the working directory
    scope,   \* per trainer process: the value of each variable of the program
    pc,      \* per trainer process: where it is in the call it is making
    loc,     \* per trainer process: the arguments and locals of that call
    calls,   \* history: per trainer, the save_checkpoint calls it has started
    given,   \* history: the serials allocated by save_checkpoint, in order
    saved,   \* history: per serial, the chief's scope when it last allocated it
    config,  \* the max_num_checkpoints every caller passes, or -1 for any
    probe    \* a helper function tried on its own: its input and its results

vars == <<fs, scope, pc, loc, calls, given, saved, config, probe>>

IdleLoc ==
    [op |-> "none", dir |-> NoneDir, args |-> NoneArgs, keep |-> 0,
     delete_dir |-> FALSE, serial |-> 0 - 1, pend |-> {}, nvar |-> 0,
     todel |-> <<>>, ret |-> 0 - 1, err |-> "none", at |-> "none",
     prior |-> [raised |-> FALSE, val |-> 0 - 1], program |-> NoneProgram,
     sernone |-> FALSE, missing |-> FALSE, marked |-> FALSE,
     keys |-> <<>>, vals |-> <<>>]

\* What get_latest_checkpoint_serial answers on a tree: every outcome has
\* the same answer, they differ in the directories made.
Answer(tree, checkpoint_dir) ==
    LET o == CHOOSE x \in get_latest_checkpoint_serial(tree, checkpoint_dir) : TRUE
    IN  [raised |-> o.raised # "none", val |-> o.val]

InitCommon ==
    /\ fs = EmptyDir
    /\ scope = [t \in Trainers |-> [i \in 1..Len(Program) |-> i]]
    /\ pc = [t \in Trainers |-> "idle"]
    /\ loc = [t \in Trainers |-> IdleLoc]
    /\ calls = [t \in Trainers |-> 0]
    /\ given = <<>>
    /\ saved = <<>>

\* No helper function is being tried on its own.
NoProbe == [input |-> <<>>, out |-> <<>>]

Init == InitCommon /\ config = 0 - 1 /\ probe = NoProbe

RECURSIVE Sum(_, _)
Sum(f, S) ==
    IF S = {} THEN 0
    ELSE LET x == CHOOSE y \in S : TRUE IN f[x] + Sum(f, S \ {x})

TotalCalls == Sum(calls, Trainers)

\* The call of trainer t ends with exception e, raised where it is.
Raise(t, e) ==
    /\ pc' = [pc EXCEPT ![t] = "failed"]
    /\ loc' = [loc EXCEPT ![t].err = e, ![t].at = pc[t]]

\* The serial directory of the call of trainer t: cur_dir of save_checkpoint.
CurDir(t) == Join(loc[t].dir.path, SerialFolder(loc[t].serial))

TrainerDir(t) ==
    Join(CurDir(t), TRAINER_PREFIX \o <<CHECKPOINT_SEPARATOR>> \o PyStr(t))

\* ------------------------------------------------------------ save_checkpoint
\* Lines 484-491: the argument checks and the creation of the root.  The
\* assertion of line 488 holds: trainer_args is None or a dict here.
StartSave(t, dir, args, keep, limit) ==
    /\ pc[t] = "idle"
    /\ TotalCalls < limit
    /\ config \in {0 - 1, keep}
    /\ calls' = [calls EXCEPT ![t] = @ + 1]
    /\ LET l == [IdleLoc EXCEPT !.op = "save", !.dir = dir, !.args = args,
                                !.keep = keep, !.prior = Answer(fs, dir)]
           made == EnsureDir(fs, dir.path)
       IN  IF dir.isnone
           THEN /\ pc' = [pc EXCEPT ![t] = "failed"]
                /\ loc' = [loc EXCEPT ![t] =
                               [l EXCEPT !.err = "ValueError: checkpoint_dir",
                                         !.at = "start"]]
                /\ fs' = fs
           ELSE IF made.raised
           THEN /\ pc' = [pc EXCEPT ![t] = "failed"]
                /\ loc' = [loc EXCEPT ![t] =
                               [l EXCEPT !.err = "OSError", !.at = "start"]]
                /\ fs' = fs
           ELSE /\ pc' = [pc EXCEPT ![t] = "serial"]
                /\ loc' = [loc EXCEPT ![t] = l]
                /\ fs' = made.tree
    /\ UNCHANGED <<scope, given, saved, config, probe>>

\* Line 493: serial = get_latest_checkpoint_serial(checkpoint_dir) + 1
AllocateSerial(t) ==
    /\ pc[t] = "serial"
    /\ \E o \in get_latest_checkpoint_serial(fs, loc[t].dir) :
           /\ fs' = o.tree
           /\ IF o.raised # "none"
              THEN Raise(t, o.raised) /\ UNCHANGED <<given, saved>>
              ELSE /\ pc' = [pc EXCEPT ![t] = "serial_dir"]
                   /\ loc' = [loc EXCEPT ![t].serial = o.val + 1]
                   /\ given' = Append(given, o.val + 1)
                   /\ saved' = IF t = 0 THEN ((o.val + 1) :> scope[t]) @@ saved
                               ELSE saved
    /\ UNCHANGED <<scope, calls, config, probe>>

\* Line 494: cur_dir = _get_serial_dir(checkpoint_dir, serial)
MakeSerialDir(t) ==
    /\ pc[t] = "serial_dir"
    /\ LET r == _get_serial_dir(fs, loc[t].dir.path, loc[t].serial)
       IN  IF r.raised THEN Raise(t, "OSError") /\ fs' = fs
           ELSE /\ pc' = [pc EXCEPT ![t] = "trainer_args"]
                /\ loc' = loc
                /\ fs' = r.tree
    /\ UNCHANGED <<scope, calls, given, saved, config, probe>>

\* save_trainer_args, lines 591-593: the assertion and the trainer directory.
MakeTrainerDir(t) ==
    /\ pc[t] = "trainer_args"
    /\ LET r == _get_trainer_dir(fs, CurDir(t), t)
       IN  IF ~loc[t].args.isdict THEN Raise(t, "AssertionError") /\ fs' = fs
           ELSE IF r.raised THEN Raise(t, "OSError") /\ fs' = fs
           ELSE /\ pc' = [pc EXCEPT ![t] = "args"]
                /\ loc' = [loc EXCEPT ![t].pend = DOMAIN loc[t].args.d]
                /\ fs' = r.tree
    /\ UNCHANGED <<scope, calls, given, saved, config, probe>>

\* save_trainer_args, lines 595-598: one argument file, in the dict's order.
WriteArg(t) ==
    /\ pc[t] = "args"
    /\ \E name \in loc[t].pend :
           LET r == WriteFile(fs, Join(TrainerDir(t), name),
                              str(loc[t].args.d[name]))
           IN  IF r.raised THEN Raise(t, "IOError") /\ fs' = fs
               ELSE /\ pc' = pc
                    /\ loc' = [loc EXCEPT ![t].pend = @ \ {name}]
                    /\ fs' = r.tree
    /\ UNCHANGED <<scope, calls, given, saved, config, probe>>

\* save_checkpoint as it would be if _scroll_delete came right after
\* save_trainer_args and the variables were never written.
AfterTrainerArgsRetentionFirst(t) == "scroll"

\* Where save_checkpoint goes on after save_trainer_args (line 498).
AfterTrainerArgs(t) == IF t = 0 THEN "model_dir" ELSE "scroll"

\* save_trainer_args, line 599: _write_success(cur_dir)
MarkTrainerDir(t) ==
    /\ pc[t] = "args"
    /\ loc[t].pend = {}
    /\ LET r == _write_success(fs, TrainerDir(t))
       IN  IF r.raised THEN Raise(t, "IOError") /\ fs' = fs
           ELSE /\ pc' = [pc EXCEPT ![t] = AfterTrainerArgs(t)]
                /\ loc' = loc
                /\ fs' = r.tree
    /\ UNCHANGED <<scope, calls, given, saved, config, probe>>

\* save_persist_vars_without_grad, line 579: cur_dir = _get_model_dir(dirname)
MakeModelDir(t) ==
    /\ pc[t] = "model_dir"
    /\ LET r == _get_model_dir(fs, CurDir(t))
       IN  IF r.raised THEN Raise(t, "OSError") /\ fs' = fs
           ELSE /\ pc' = [pc EXCEPT ![t] = "vars"]
                /\ loc' = [loc EXCEPT ![t].nvar = 1]
                /\ fs' = r.tree
    /\ UNCHANGED <<scope, calls, given, saved, config, probe>>

\* save_persist_vars_without_grad as it would be if _write_success came
\* before save_vars.
VarsDoneAtOnce(t) == TRUE

\* save_persist_vars_without_grad, lines 580-587: _write_success follows
\* save_vars, that is the last save op the executor runs.
VarsDone(t) == loc[t].nvar > Len(save_vars(Program))

\* The executor runs the save ops of save_vars (lines 108-112, 127) one by
\* one, each writing one variable to dirname/<name>.  The executor is not
\* part of io.py: a save op is taken to fail, like open(), when the
\* directory is gone.
WriteVar(t) ==
    /\ pc[t] = "vars"
    /\ loc[t].nvar <= Len(save_vars(Program))
    /\ LET var == save_vars(Program)[loc[t].nvar]
           i == CHOOSE j \in 1..Len(Program) : Program[j].name = var.name
           r == WriteFile(fs, Join(Join(CurDir(t), MODEL_DIR), var.name),
                          scope[t][i])
       IN  IF r.raised THEN Raise(t, "IOError") /\ fs' = fs
           ELSE /\ pc' = pc
                /\ loc' = [loc EXCEPT ![t].nvar = @ + 1]
                /\ fs' = r.tree
    /\ UNCHANGED <<scope, calls, given, saved, config, probe>>

\* save_persist_vars_without_grad, line 587: _write_success(cur_dir)
MarkModelDir(t) ==
    /\ pc[t] = "vars"
    /\ VarsDone(t)
    /\ LET r == _write_success(fs, Join(CurDir(t), MODEL_DIR))
       IN  IF r.raised THEN Raise(t, "IOError") /\ fs' = fs
           ELSE /\ pc' = [pc EXCEPT ![t] = "scroll"]
                /\ loc' = [loc EXCEPT ![t].marked = TRUE]
                /\ fs' = r.tree
    /\ UNCHANGED <<scope, calls, given, saved, config, probe>>

\* ------------------------------------------------------------ _scroll_delete
\* Where the caller of _scroll_delete goes on once it returns.
AfterScroll(t) == IF loc[t].op = "clean" THEN "rmdir" ELSE "done"

\* Lines 683-694: the listing, the count and the serials to delete.
ScrollList(t) ==
    /\ pc[t] = "scroll"
    /\ LET r == _scroll_delete(fs, loc[t].dir.path, loc[t].keep)
       IN  IF r.raised # "none" THEN Raise(t, r.raised)
           ELSE /\ pc' = [pc EXCEPT ![t] =
                              IF r.serials = <<>> THEN AfterScroll(t)
                              ELSE "remove"]
                /\ loc' = [loc EXCEPT ![t].todel = r.serials]
    /\ UNCHANGED <<fs, scope, calls, given, saved, config, probe>>

\* Lines 695-697: one turn of the loop, _get_serial_dir and shutil.rmtree.
RemoveSerial(t) ==
    /\ pc[t] = "remove"
    /\ LET d == _get_serial_dir(fs, loc[t].dir.path, Head(loc[t].todel))
           r == RmTree(d.tree, d.path)
       IN  IF d.raised \/ r.raised THEN Raise(t, "OSError") /\ fs' = fs
           ELSE /\ pc' = [pc EXCEPT ![t] =
                              IF Tail(loc[t].todel) = <<>> THEN AfterScroll(t)
                              ELSE "remove"]
                /\ loc' = [loc EXCEPT ![t].todel = Tail(@)]
                /\ fs' = r.tree
    /\ UNCHANGED <<scope, calls, given, saved, config, probe>>

\* ------------------------------------------------------------ clean_checkpoint
\* Lines 537-539: the argument check; _scroll_delete follows with 0.
StartClean(t, dir, delete_dir) ==
    /\ pc[t] = "idle"
    /\ LET l == [IdleLoc EXCEPT !.op = "clean", !.dir = dir,
                                !.delete_dir = delete_dir,
                                !.prior = Answer(fs, dir)]
       IN  IF dir.isnone
           THEN /\ pc' = [pc EXCEPT ![t] = "failed"]
                /\ loc' = [loc EXCEPT ![t] =
                               [l EXCEPT !.err = "ValueError: checkpoint_dir",
                                         !.at = "start"]]
           ELSE /\ pc' = [pc EXCEPT ![t] = "scroll"]
                /\ loc' = [loc EXCEPT ![t] = l]
    /\ UNCHANGED <<fs, scope, calls, given, saved, config, probe>>

\* Lines 541-542: the root is removed when asked for and empty.
RemoveRoot(t) ==
    /\ pc[t] = "rmdir"
    /\ IF ~loc[t].delete_dir THEN /\ pc' = [pc EXCEPT ![t] = "done"]
                                  /\ UNCHANGED <<loc, fs>>
       ELSE IF ~IsDir(fs, loc[t].dir.path) THEN Raise(t, "OSError") /\ fs' = fs
       ELSE /\ pc' = [pc EXCEPT ![t] = "done"]
            /\ loc' = loc
            /\ fs' = IF ListDir(fs, loc[t].dir.path) = {}
                     THEN RmTree(fs, loc[t].dir.path).tree ELSE fs
    /\ UNCHANGED <<scope, calls, given, saved, config, probe>>

\* ------------------------------------------------------------ the resolver
\* A call of get_latest_checkpoint_serial(dir) by the caller in process t.
GetLatest(t, dir) ==
    /\ pc[t] = "idle"
    /\ \E o \in get_latest_checkpoint_serial(fs, dir) :
           /\ fs' = o.tree
           /\ pc' = [pc EXCEPT ![t] =
                          IF o.raised # "none" THEN "failed" ELSE "done"]
           /\ loc' = [loc EXCEPT ![t] =
                          [IdleLoc EXCEPT
                               !.op = "latest", !.dir = dir, !.ret = o.val,
                               !.prior = Answer(fs, dir),
                               !.at = IF o.raised # "none" THEN "start"
                                      ELSE "none",
                               !.err = o.raised]]
    /\ UNCHANGED <<scope, calls, given, saved, config, probe>>

\* ------------------------------------------------------------ load_checkpoint
\* load_checkpoint as it would be if line 518 tested serial for None only.
load_checkpoint_args_any_int(dir, serial, program) ==
    IF dir.isnone THEN "ValueError: checkpoint_dir"
    ELSE IF serial.isnone THEN "ValueError: serial"
    ELSE IF program.isnone THEN "ValueError: main_program"
    ELSE "none"

\* Lines 515-522: the argument checks, and what they raise.
load_checkpoint_args(dir, serial, program) ==
    IF dir.isnone THEN "ValueError: checkpoint_dir"
    ELSE IF serial.isnone \/ serial.val < 0 THEN "ValueError: serial"
    ELSE IF program.isnone THEN "ValueError: main_program"
    ELSE "none"

StartLoad(t, dir, serial, program) ==
    /\ pc[t] = "idle"
    /\ LET l == [IdleLoc EXCEPT !.op = "load", !.dir = dir, !.serial = serial.val,
                                !.sernone = serial.isnone, !.program = program,
                                !.missing =
                                    ~IsDir(fs, Join(Join(dir.path, SerialFolder(serial.val)),
                                                    MODEL_DIR))]
           e == load_checkpoint_args(dir, serial, program)
       IN  IF e # "none"
           THEN /\ pc' = [pc EXCEPT ![t] = "failed"]
                /\ loc' = [loc EXCEPT ![t] = [l EXCEPT !.err = e, !.at = "start"]]
           ELSE /\ pc' = [pc EXCEPT ![t] = "load_serial_dir"]
                /\ loc' = [loc EXCEPT ![t] = l]
    /\ UNCHANGED <<fs, scope, calls, given, saved, config, probe>>

\* Line 524: cur_dir = _get_serial_dir(checkpoint_dir, serial)
LoadSerialDir(t) ==
    /\ pc[t] = "load_serial_dir"
    /\ LET r == _get_serial_dir(fs, loc[t].dir.path, loc[t].serial)
       IN  IF r.raised THEN Raise(t, "OSError") /\ fs' = fs
           ELSE /\ pc' = [pc EXCEPT ![t] = "load_model_dir"]
                /\ loc' = loc
                /\ fs' = r.tree
    /\ UNCHANGED <<scope, calls, given, saved, config, probe>>

\* load_persist_vars_without_grad, lines 559-560: dirname = _get_model_dir(dirname)
LoadModelDir(t) ==
    /\ pc[t] = "load_model_dir"
    /\ LET r == _get_model_dir(fs, CurDir(t))
       IN  IF r.raised THEN Raise(t, "OSError") /\ fs' = fs
           ELSE /\ pc' = [pc EXCEPT ![t] = "load_vars"]
                /\ loc' = [loc EXCEPT ![t].nvar = 1]
                /\ fs' = r.tree
    /\ UNCHANGED <<scope, calls, given, saved, config, probe>>

\* load_vars as it would be if the load ops read the file of the variable
\* that follows in the program.
LoadSourceShifted(t) ==
    LET vs == load_vars(loc[t].program.vars)
    IN  vs[(loc[t].nvar % Len(vs)) + 1].name

\* load_vars, line 204: the file the load op of the variable at hand reads.
LoadSource(t) == load_vars(loc[t].program.vars)[loc[t].nvar].name

\* The executor runs the load ops of load_vars (lines 194-204, 219) one by
\* one, each reading dirname/<name> into its variable.
LoadVar(t) ==
    /\ pc[t] = "load_vars"
    /\ loc[t].nvar <= Len(load_vars(loc[t].program.vars))
    /\ LET var == load_vars(loc[t].program.vars)[loc[t].nvar]
           i == CHOOSE j \in 1..Len(Program) : Program[j].name = var.name
           r == LoadOp(fs, Join(Join(CurDir(t), MODEL_DIR), LoadSource(t)))
       IN  IF r.raised THEN Raise(t, "NotFound") /\ scope' = scope
           ELSE /\ pc' = pc
                /\ loc' = [loc EXCEPT ![t].nvar = @ + 1]
                /\ scope' = [scope EXCEPT ![t][i] = r.val]
    /\ UNCHANGED <<fs, calls, given, saved, config, probe>>

\* Line 219: executor.run(load_prog) has run every load op.
LoadDone(t) ==
    /\ pc[t] = "load_vars"
    /\ loc[t].nvar > Len(load_vars(loc[t].program.vars))
    /\ pc' = [pc EXCEPT ![t] = "done"]
    /\ UNCHANGED <<fs, scope, loc, calls, given, saved, config, probe>>

\* The training loop of process t goes on: every variable of its program
\* takes a new value.
Train(t) ==
    /\ pc[t] = "idle"
    /\ \A i \in 1..Len(Program) : scope[t][i] <= 10 * (MaxTrain - 1) + i
    /\ scope' = [scope EXCEPT ![t] = [i \in 1..Len(Program) |-> @[i] + 10]]
    /\ UNCHANGED <<fs, pc, loc, calls, given, saved, config, probe>>

\* ------------------------------------------------------------ load_trainer_args
\* The caller whose save_checkpoint call has returned asks for the trainer
\* arguments it saved: load_trainer_args(checkpoint_dir, serial, trainer_id,
\* keys) with the serial that call allocated.  Line 603: keys is a list.
StartLoadArgs(t, keys) ==
    /\ pc[t] = "done"
    /\ loc[t].op = "save"
    /\ pc' = [pc EXCEPT ![t] = "args_serial_dir"]
    /\ loc' = [loc EXCEPT ![t].op = "load_args", ![t].keys = keys,
                          ![t].vals = <<>>]
    /\ UNCHANGED <<fs, scope, calls, given, saved, config, probe>>

\* Line 605: cur_dir = _get_serial_dir(checkpoint_dir, serial)
LoadArgsSerialDir(t) ==
    /\ pc[t] = "args_serial_dir"
    /\ LET r == _get_serial_dir(fs, loc[t].dir.path, loc[t].serial)
       IN  IF r.raised THEN Raise(t, "OSError") /\ fs' = fs
           ELSE /\ pc' = [pc EXCEPT ![t] = "args_trainer_dir"]
                /\ loc' = loc
                /\ fs' = r.tree
    /\ UNCHANGED <<scope, calls, given, saved, config, probe>>

\* Line 606: cur_dir = _get_trainer_dir(cur_dir, trainer_id)
LoadArgsTrainerDir(t) ==
    /\ pc[t] = "args_trainer_dir"
    /\ LET r == _get_trainer_dir(fs, CurDir(t), t)
       IN  IF r.raised THEN Raise(t, "OSError") /\ fs' = fs
           ELSE /\ pc' = [pc EXCEPT ![t] = "read_args"]
                /\ loc' = loc
                /\ fs' = r.tree
    /\ UNCHANGED <<scope, calls, given, saved, config, probe>>

\* Line 614: ret_values.append(contents.strip())
ReadInto(vals, contents) == Append(vals, PyStrip(contents))

\* Lines 610-614: one turn of the loop, the file of the next name is read;
\* open() raises IOError when there is no such file.
ReadArg(t) ==
    /\ pc[t] = "read_args"
    /\ Len(loc[t].vals) < Len(loc[t].keys)
    /\ LET cur_file == Join(TrainerDir(t), loc[t].keys[Len(loc[t].vals) + 1])
       IN  IF ~IsFile(fs, cur_file) THEN Raise(t, "IOError")
           ELSE /\ pc' = pc
                /\ loc' = [loc EXCEPT ![t].vals =
                               ReadInto(@, Lookup(fs, cur_file).data)]
    /\ UNCHANGED <<fs, scope, calls, given, saved, config, probe>>

\* Line 615: return ret_values
LoadArgsDone(t) ==
    /\ pc[t] = "read_args"
    /\ Len(loc[t].vals) = Len(loc[t].keys)
    /\ pc' = [pc EXCEPT ![t] = "done"]
    /\ UNCHANGED <<fs, scope, loc, calls, given, saved, config, probe>>

\* ------------------------------------------------------------ the callers
\* The call has returned or raised: the caller goes on.
Return(t) ==
    /\ pc[t] \in {"done", "failed"}
    /\ pc' = [pc EXCEPT ![t] = "idle"]
    /\ loc' = [loc EXCEPT ![t] = IdleLoc]
    /\ UNCHANGED <<fs, scope, calls, given, saved, config, probe>>

\* The process dies in the middle of a call.
Crash(t) ==
    /\ pc[t] \notin {"idle", "done", "failed"}
    /\ Raise(t, "crash")
    /\ UNCHANGED <<fs, scope, calls, given, saved, config, probe>>

\* Somebody else puts an entry into the root.
StraysPresent == {n \in DOMAIN StrayEntries : Lookup(fs, Join(RootDir.path, n)) # NoNode}

AddStray(name) ==
    /\ IsDir(fs, RootDir.path)
    /\ name \notin ListDir(fs, RootDir.path)
    /\ Cardinality(StraysPresent) < MaxStray
    /\ fs' = Put(fs, Join(RootDir.path, name), StrayEntries[name])
    /\ UNCHANGED <<scope, pc, loc, calls, given, saved, config, probe>>

\* The steps of a save_checkpoint call under way, and its return.
SaveStep(t) ==
    \/ AllocateSerial(t)
    \/ MakeSerialDir(t)
    \/ MakeTrainerDir(t)
    \/ WriteArg(t)
    \/ MarkTrainerDir(t)
    \/ MakeModelDir(t)
    \/ WriteVar(t)
    \/ MarkModelDir(t)
    \/ ScrollList(t)
    \/ RemoveSerial(t)
    \/ Return(t)

Step(t) == SaveStep(t) \/ RemoveRoot(t)

Call(t) ==
    \/ \E dir \in {NoneDir, RootDir}, args \in ArgChoices, keep \in KeepChoices :
           StartSave(t, dir, args, keep, MaxCalls)
    \/ \E dir \in {NoneDir, RootDir}, delete_dir \in BOOLEAN :
           StartClean(t, dir, delete_dir)
    \/ \E dir \in {NoneDir, EmptyStrDir, RootDir} : GetLatest(t, dir)

AllIdle == \A t \in Trainers : pc[t] = "idle"

\* The callers make one call at a time (section 5 of the specification: a
\* single-process, synchronous model); a call may die at any step, and
\* entries of other origin appear in the root between calls.
Next ==
    \/ \E t \in Trainers : (AllIdle /\ Call(t)) \/ Step(t) \/ Crash(t)
    \/ \E name \in DOMAIN StrayEntries : AllIdle /\ AddStray(name)

Spec == Init /\ [][Next]_vars

\* The chief alone saves into a root that starts empty, always with the same
\* max_num_checkpoints and with a dict of trainer arguments.
InitChief == InitCommon /\ config \in KeepChoices /\ probe = NoProbe

NextChief ==
    \/ \E keep \in KeepChoices :
           StartSave(0, RootDir, EpochArgs, keep, MaxChiefSaves)
    \/ SaveStep(0)

SpecChief == InitChief /\ [][NextChief]_vars

\* The trainers save side by side: the steps of their save_checkpoint calls
\* interleave in every way, and a call may die at any step.
RoundCall(t) ==
    \E keep \in KeepChoices \ {0} : StartSave(t, RootDir, EpochArgs, keep, MaxCalls)

NextRound == \E t \in Trainers : RoundCall(t) \/ SaveStep(t) \/ Crash(t)

SpecRound == Init /\ [][NextRound]_vars

\* The steps of a load_checkpoint call under way.
LoadStep(t) ==
    \/ LoadSerialDir(t)
    \/ LoadModelDir(t)
    \/ LoadVar(t)
    \/ LoadDone(t)

LoadCall(t) ==
    \E dir \in {NoneDir, RootDir}, serial \in SerialChoices,
       program \in {NoneProgram, MainProgram, BareProgram} :
        StartLoad(t, dir, serial, program)

\* The chief saves and trains on, the processes load, one call at a time; a
\* call may die at any step.
NextLoad ==
    \/ \E keep \in KeepChoices \ {0} :
           AllIdle /\ StartSave(0, RootDir, EpochArgs, keep, MaxLoadSaves)
    \/ AllIdle /\ Train(0)
    \/ \E t \in Trainers :
           \/ AllIdle /\ LoadCall(t)
           \/ SaveStep(t)
           \/ LoadStep(t)
           \/ Crash(t)

SpecLoad == Init /\ [][NextLoad]_vars

\* The steps of a load_trainer_args call under way.
LoadArgsStep(t) ==
    \/ LoadArgsSerialDir(t)
    \/ LoadArgsTrainerDir(t)
    \/ ReadArg(t)
    \/ LoadArgsDone(t)

\* The trainers save, one call at a time, with one dict of trainer arguments
\* or another, and ask for the arguments back once the save has returned; a
\* call may die at any step.
NextArgs ==
    \E t \in Trainers :
        \/ \E args \in ArgDicts, keep \in KeepChoices :
               AllIdle /\ StartSave(t, RootDir, args, keep, MaxArgSaves)
        \/ SaveStep(t)
        \/ \E keys \in KeyLists : StartLoadArgs(t, keys)
        \/ LoadArgsStep(t)
        \/ Crash(t)

SpecArgs == Init /\ [][NextArgs]_vars

\* ------------------------------------------------------------ _is_checkpoint_var
\* The variables _is_checkpoint_var is tried on: every type with every name
\* and either persistable flag.
VarTypes == {"LOD_TENSOR", "SELECTED_ROWS", "FEED_MINIBATCH", "FETCH_LIST", "RAW"}

VarNames ==
    { <<"w">>,
      <<"w", "@", "G", "R", "A", "D">>,
      <<"@", "G", "R", "A", "D", "w">>,
      <<"w", "@", "G", "R", "A">>,
      <<"G", "R", "A", "D">>,
      <<"x", ".", "t", "r", "a", "i", "n", "e", "r", "_", "0">>,
      <<"x", ".", "t", "r", "a", "i", "n", "e", "r">>,
      <<"b", ".", "b", "l", "o", "c", "k", "0">>,
      <<"b", ".", "b", "l", "o", "c">>,
      <<"b", "l", "o", "c", "k">> }

VarChoices ==
    [name : VarNames, type : VarTypes, persistable : BOOLEAN]

InitFilter ==
    /\ InitCommon
    /\ config = 0 - 1
    /\ probe \in [input : VarChoices, out : {<<>>}]

\* One more evaluation of _is_checkpoint_var(var) on the variable at hand.
ApplyFilter ==
    /\ Len(probe.out) < MaxEvals
    /\ probe' = [probe EXCEPT !.out = Append(@, _is_checkpoint_var(probe.input))]
    /\ UNCHANGED <<fs, scope, pc, loc, calls, given, saved, config>>

SpecFilter == InitFilter /\ [][ApplyFilter]_vars

\* ------------------------------------------------------------ serial names
\* The serials _get_serial_dir is tried on.
SerialArgs == {0, 7, 10}

\* The names _get_dir_serial is tried on besides those _get_serial_dir
\* makes: the entries of other origin, and names close to checkpoint_<n>.
NameChoices ==
    (DOMAIN StrayEntries)
    \cup { CHECKPOINT_PREFIX,
           CHECKPOINT_PREFIX \o <<CHECKPOINT_SEPARATOR>>,
           CHECKPOINT_PREFIX \o <<CHECKPOINT_SEPARATOR, "x">>,
           CHECKPOINT_PREFIX \o <<CHECKPOINT_SEPARATOR, "1", CHECKPOINT_SEPARATOR, "2">>,
           MODEL_DIR,
           TRAINER_PREFIX \o <<CHECKPOINT_SEPARATOR, "0">> }

\* A name to parse: the path it ends, and whether _get_serial_dir returned
\* that path, and for which serial.
GivenName(name) == [path |-> <<name>>, made |-> FALSE, serial |-> 0 - 1]

MadeName(path, serial) == [path |-> path, made |-> TRUE, serial |-> serial]

\* os.path.basename
BaseName(path) == path[Len(path)]

InitSerial ==
    /\ InitCommon
    /\ config = 0 - 1
    /\ probe \in [input : {GivenName(n) : n \in NameChoices}, out : {<<>>}]

\* _get_serial_dir(root, serial): the directory is there afterwards, and the
\* name at hand is the one of the path returned.
ApplySerialDir(serial) ==
    /\ LET r == _get_serial_dir(fs, RootDir.path, serial)
       IN  /\ ~r.raised
           /\ fs' = r.tree
           /\ probe' = [probe EXCEPT !.input = MadeName(r.path, serial)]
    /\ UNCHANGED <<scope, pc, loc, calls, given, saved, config>>

\* One more evaluation of _get_dir_serial(dirname) on the name at hand.
ApplyDirSerial ==
    /\ Len(probe.out) < MaxEvals
    /\ probe' = [probe EXCEPT !.out =
                     Append(@, [arg |-> probe.input,
                                res |-> _get_dir_serial(BaseName(probe.input.path))])]
    /\ UNCHANGED <<fs, scope, pc, loc, calls, given, saved, config>>

NextSerial == ApplyDirSerial \/ \E serial \in SerialArgs : ApplySerialDir(serial)

SpecSerial == InitSerial /\ [][NextSerial]_vars

\* ------------------------------------------------------------ save_vars
\* The variables save_vars is handed: any of these, each at most once, in
\* any order.
VarPool ==
    { [name |-> <<"w">>, type |-> "LOD_TENSOR", persistable |-> TRUE],
      [name |-> <<"b">>, type |-> "LOD_TENSOR", persistable |-> TRUE],
      [name |-> <<"b", "2">>, type |-> "SELECTED_ROWS", persistable |-> FALSE],
      [name |-> <<"r">>, type |-> "RAW", persistable |-> TRUE] }

\* The lists of variables of the pool without repetition.
VarLists ==
    {l \in UNION {[1..n -> VarPool] : n \in 0..Cardinality(VarPool)} :
        \A i, j \in 1..Len(l) : i # j => l[i] # l[j]}

FilenameChoices == {NoneFilename, Filename(<<"all">>)}

InitSaveVars ==
    /\ InitCommon
    /\ config = 0 - 1
    /\ probe \in [input : [dirname : {RootDir.path}, vars : VarLists,
                            filename : FilenameChoices],
                   out : {<<>>}]

\* One more call of save_vars on the arguments at hand.
ApplySaveVars ==
    /\ Len(probe.out) < MaxEvals
    /\ probe' = [probe EXCEPT !.out =
                     Append(@, [arg |-> probe.input,
                                ops |-> save_program(probe.input.dirname,
                                                     probe.input.vars,
                                                     probe.input.filename)])]
    /\ UNCHANGED <<fs, scope, pc, loc, calls, given, saved, config>>

\* The caller supplies the same variables in another order: last to first.
Reorder ==
    /\ Len(probe.input.vars) > 1
    /\ probe' = [probe EXCEPT !.input.vars =
                     [i \in 1..Len(@) |-> @[Len(@) + 1 - i]]]
    /\ UNCHANGED <<fs, scope, pc, loc, calls, given, saved, config>>

NextSaveVars == ApplySaveVars \/ Reorder

SpecSaveVars == InitSaveVars /\ [][NextSaveVars]_vars

\* ------------------------------------------------------------ observations
\* What the claims speak of, read off the tree without the code's parser.
Root == RootDir.path

\* The serials looked at: the names checkpoint_0 .. checkpoint_9.
Serials == 0..9

SerialPath(n) == Join(Root, <<"checkpoint", "_", Digits[n + 1]>>)

ModelPath(n) == Join(SerialPath(n), <<"_", "_", "model", "_", "_">>)

\* The serials whose checkpoint_<n> directory exists under the root.
SerialDirs(tree) == {n \in Serials : IsDir(tree, SerialPath(n))}

\* checkpoint_<n>/__model__/_SUCCESS exists.
Complete(tree, n) == IsFile(tree, Join(ModelPath(n), <<"_", "SUCCESS">>))

\* The highest complete serial, or -1.
LatestComplete(tree) ==
    SetMax({n \in SerialDirs(tree) : Complete(tree, n)}, 0 - 1)

Range(seq) == {seq[i] : i \in 1..Len(seq)}

\* The k highest members of S.
Highest(S, k) == {x \in S : Cardinality({y \in S : y > x}) < k}

\* The names of the variables of the program that are checkpoint-eligible.
EligibleNames == {Program[i].name : i \in {j \in 1..Len(Program) : _is_checkpoint_var(Program[j])}}

\* ------------------------------------------------------------ claims
\* C1: from an empty root, after n successful save_checkpoint calls by the
\* chief, each with max_num_checkpoints = k < n, the root holds exactly k
\* checkpoint_<serial> directories and nothing else, and they are the k
\* highest serials those saves allocated.
C1_RetentionKeepsHighest ==
    /\ pc[0] # "failed"
    /\ (pc[0] = "done" /\ calls[0] > config)
           => /\ Len(given) = calls[0]
              /\ Cardinality(SerialDirs(fs)) = config
              /\ SerialDirs(fs) = Highest(Range(given), config)
              /\ ListDir(fs, Root) = {SerialFolder(n) : n \in SerialDirs(fs)}

\* Four saves with max_num_checkpoints = 3 have returned: 1, 2, 3 remain.
C1_Witness ==
    /\ pc[0] = "done"
    /\ calls[0] = 4
    /\ config = 3
    /\ given = <<0, 1, 2, 3>>
    /\ SerialDirs(fs) = {1, 2, 3}

\* C2: whenever checkpoint_<s>/__model__/_SUCCESS exists, every
\* checkpoint-eligible variable of the program has been written into
\* checkpoint_<s>/__model__, also in the states a call that died leaves.
C2_MarkedIsComplete ==
    \A n \in Serials :
        Complete(fs, n) =>
            \A name \in EligibleNames : IsFile(fs, Join(ModelPath(n), name))

\* A complete checkpoint_0 beside a checkpoint_1 whose save died after
\* writing one of the two eligible variables.
C2_Witness ==
    /\ Complete(fs, 0)
    /\ pc[0] = "failed"
    /\ loc[0].err = "crash"
    /\ IsFile(fs, Join(ModelPath(1), <<"w">>))
    /\ ~IsFile(fs, Join(ModelPath(1), <<"b">>))
    /\ ~Complete(fs, 1)

\* C3 (as claimed): once a save_checkpoint call of the chief has returned
\* without error, get_latest_checkpoint_serial(root) returns the serial that
\* call allocated.  Stated for max_num_checkpoints >= 1: a call that keeps 0
\* checkpoints deletes its own.
C3_CompletedSaveIsLatest ==
    (pc[0] = "done" /\ loc[0].op = "save" /\ loc[0].keep >= 1)
        => Answer(fs, RootDir) = [raised |-> FALSE, val |-> loc[0].serial]

\* The steps of save_checkpoint that come before the model success mark is
\* written ("vars": the variables and the writing of the mark itself).
BeforeMark ==
    {"start", "serial", "serial_dir", "trainer_args", "args", "model_dir", "vars"}

\* C4: a save_checkpoint call that fails or dies before the model success
\* mark of its serial is written leaves get_latest_checkpoint_serial(root)
\* answering what it answered when the call started, never the serial of the
\* half-written directory.
C4_FailedSaveKeepsLatest ==
    \A t \in Trainers :
        (pc[t] = "failed" /\ loc[t].op = "save" /\ loc[t].at \in BeforeMark)
            => /\ Answer(fs, loc[t].dir) = loc[t].prior
               /\ loc[t].serial >= 0 => ~Complete(fs, loc[t].serial)
               /\ loc[t].serial >= 0 => LatestComplete(fs) < loc[t].serial

\* The chief died after writing one variable into checkpoint_1/__model__;
\* checkpoint_0 was the latest before and still is.
C4_Witness ==
    /\ pc[0] = "failed"
    /\ loc[0].op = "save"
    /\ loc[0].at = "vars"
    /\ loc[0].serial = 1
    /\ loc[0].prior = [raised |-> FALSE, val |-> 0]
    /\ IsFile(fs, Join(ModelPath(1), <<"w">>))
    /\ LatestComplete(fs) = 0

\* What C5 says get_latest_checkpoint_serial(checkpoint_dir) returns.
ExpectedLatest(tree, checkpoint_dir) ==
    IF checkpoint_dir.isnone \/ checkpoint_dir.path = <<>> THEN 0 - 1
    ELSE IF ~IsDir(tree, checkpoint_dir.path) THEN 0 - 1
    ELSE LatestComplete(tree)

\* C5 (as claimed): get_latest_checkpoint_serial returns -1 for a null or
\* empty or missing root, and otherwise the highest n whose checkpoint_<n>
\* directory holds __model__/_SUCCESS, or -1 when there is none.
C5_ResolverAnswer ==
    \A t \in Trainers :
        (loc[t].op = "latest" /\ pc[t] \in {"done", "failed"})
            => /\ pc[t] = "done"
               /\ loc[t].ret = ExpectedLatest(fs, loc[t].dir)

\* C6 (as claimed): an entry of the root whose name is not checkpoint_<n>
\* never makes get_latest_checkpoint_serial, save_checkpoint or
\* clean_checkpoint fail.
C6_MalformedEntriesSkipped ==
    \A t \in Trainers : loc[t].err # "ValueError: unpack"

\* C7 (as claimed): from an empty root, save_checkpoint by the chief with
\* max_num_checkpoints = 3 and no trainer args succeeds.
C7_SaveWithoutArgsSucceeds ==
    (/\ loc[0].op = "save"
     /\ loc[0].dir = RootDir
     /\ loc[0].args = NoneArgs
     /\ loc[0].keep = 3
     /\ StraysPresent = {})
        => loc[0].err \in {"none", "crash"}

\* C8 (as claimed): no save_checkpoint call is given a serial that an
\* earlier call was given.
C8_SerialsNeverReused ==
    \A i, j \in 1..Len(given) : i # j => given[i] # given[j]

\* C8 (amended): every save_checkpoint call that allocates a serial
\* allocates (the highest serial whose directory holds __model__/_SUCCESS)
\* + 1, and 0 when no directory holds it.
C8_SerialFollowsLatestComplete ==
    [][\A t \in Trainers :
           (pc[t] = "serial" /\ pc'[t] = "serial_dir")
               => loc'[t].serial = LatestComplete(fs) + 1]_vars

\* A call has just been given serial 0 again: the earlier call that was
\* given it left checkpoint_0 without the model success mark.
C8_Witness ==
    /\ given = <<0, 0>>
    /\ \E t \in Trainers : pc[t] = "serial_dir" /\ loc[t].serial = 0
    /\ IsDir(fs, SerialPath(0))
    /\ ~Complete(fs, 0)

\* C9 (as claimed): once clean_checkpoint(root) has ended, no serial
\* directory is left under the root and get_latest_checkpoint_serial(root)
\* returns -1.
C9_CleanRemovesAll ==
    \A t \in Trainers :
        (/\ loc[t].op = "clean"
         /\ loc[t].dir = RootDir
         /\ pc[t] \in {"done", "failed"}
         /\ loc[t].err # "crash")
            => /\ SerialDirs(fs) = {}
               /\ Answer(fs, RootDir) = [raised |-> FALSE, val |-> 0 - 1]

\* The call of trainer t holds a serial it allocated.
Allocated(t) == loc[t].op = "save" /\ loc[t].serial >= 0

\* C10 (as claimed): the save_checkpoint calls the trainers make for the
\* same round compute the same serial, however their steps interleave.
C10_SameSerialInRound ==
    \A t1, t2 \in Trainers :
        (Allocated(t1) /\ Allocated(t2) /\ calls[t1] = calls[t2])
            => loc[t1].serial = loc[t2].serial

\* ------------------------------------------------------------ what a step writes
RECURSIVE Paths(_)
\* Every path below a node, the empty path included.
Paths(node) ==
    IF ~IsDirNode(node) THEN {<<>>}
    ELSE {<<>>} \cup UNION {{<<n>> \o p : p \in Paths(node.ents[n])} :
                                n \in DOMAIN node.ents}

\* The paths a step from tree old to tree new has created or rewritten: what
\* was not there before, and the files whose data differ.  Removals are not
\* writes.
Written(old, new) ==
    {p \in Paths(new) :
        \/ Lookup(old, p) = NoNode
        \/ IsFileNode(Lookup(new, p)) /\ Lookup(old, p) # Lookup(new, p)
        \/ IsDirNode(Lookup(new, p)) /\ ~IsDirNode(Lookup(old, p))}

\* p lies at or below q.
Below(p, q) == Len(p) >= Len(q) /\ SubSeq(p, 1, Len(q)) = q

\* The step taken is a step of the call of trainer t: every step of a call
\* changes the position or the locals of the process that takes it.
StepOf(t) == pc'[t] # pc[t] \/ loc'[t] # loc[t]

\* C11 (as claimed): a step of a save_checkpoint call of a trainer other
\* than the chief creates or writes nothing at or below any __model__
\* directory, and creates or writes only the root, the serial directory it
\* allocated, and what lies at or below its own trainer_<id> directory there.
C11_NonChiefWritesOwnDirOnly ==
    [][\A t \in Trainers \ {0} :
           (StepOf(t) /\ loc'[t].op = "save")
               => \A p \in Written(fs, fs') :
                      /\ \A n \in Serials : ~Below(p, ModelPath(n))
                      /\ \/ p = Root
                         \/ /\ loc'[t].serial >= 0
                            /\ p = Join(Root, SerialFolder(loc'[t].serial))
                         \/ /\ loc'[t].serial >= 0
                            /\ Below(p, Join(Join(Root, SerialFolder(loc'[t].serial)),
                                             TRAINER_PREFIX \o <<CHECKPOINT_SEPARATOR>>
                                                 \o PyStr(t)))]_vars

\* C12 (as claimed): once checkpoint_<s>/__model__/_SUCCESS exists, no step
\* of a save_checkpoint call creates or rewrites anything at or below
\* checkpoint_<s>.
C12_MarkedDirImmutable ==
    [][\A t \in Trainers :
           (StepOf(t) /\ loc'[t].op = "save")
               => \A n \in Serials :
                      Complete(fs, n)
                          => \A p \in Written(fs, fs') : ~Below(p, SerialPath(n))]_vars

\* The part of C12 that the code keeps: once the mark exists nothing at or
\* below checkpoint_<s>/__model__ is created or rewritten.
ModelDirImmutable ==
    [][\A n \in Serials :
           Complete(fs, n)
               => \A p \in Written(fs, fs') : ~Below(p, ModelPath(n))]_vars

\* C13 (as claimed): in a save_checkpoint call with max_num_checkpoints = k,
\* by any trainer, the retention step deletes exactly the serial directories
\* below the k highest existing ones (none when at most k exist), each with
\* its whole subtree, and when the call returns at most k serial directories
\* exist under the root.
C13_RetentionKeepsAtMostK ==
    [][\A t \in Trainers :
           (StepOf(t) /\ loc[t].op = "save")
               => /\ (pc[t] = "scroll" /\ pc'[t] \in {"remove", "done"})
                         => Range(loc'[t].todel) \cap SerialDirs(fs)
                                = SerialDirs(fs) \ Highest(SerialDirs(fs), loc[t].keep)
                  /\ (pc[t] = "remove" /\ pc'[t] \in {"remove", "done"})
                         => SerialDirs(fs') = SerialDirs(fs) \ {Head(loc[t].todel)}
                  /\ (pc[t] # "done" /\ pc'[t] = "done")
                         => Cardinality(SerialDirs(fs')) <= loc[t].keep]_vars

\* The arguments of the load_checkpoint call of trainer t are ones C14 names.
InvalidLoadArgs(l) ==
    l.dir.isnone \/ l.sernone \/ l.serial < 0 \/ l.program.isnone

\* C14: a load_checkpoint call whose checkpoint_dir is None, whose serial is
\* None or negative, or whose main_program is None ends at once with a
\* ValueError, and the step that starts it leaves the directory tree and
\* the variables as they were.
C14_LoadRejectsInvalidArgs ==
    [][\A t \in Trainers :
           (loc'[t].op = "load" /\ InvalidLoadArgs(loc'[t]))
               => /\ pc'[t] = "failed"
                  /\ loc'[t].at = "start"
                  /\ loc'[t].err \in {"ValueError: checkpoint_dir",
                                      "ValueError: serial",
                                      "ValueError: main_program"}
                  /\ StepOf(t) => (fs' = fs /\ scope' = scope)]_vars

\* load_checkpoint(root, -1, program) has been refused while checkpoint_0 is
\* complete and checkpoint_-1 does not exist.
C14_Witness ==
    \E t \in Trainers :
        /\ pc[t] = "failed"
        /\ loc[t].op = "load"
        /\ loc[t].dir = RootDir
        /\ loc[t].serial = 0 - 1
        /\ loc[t].err = "ValueError: serial"
        /\ Complete(fs, 0)
        /\ ~IsDir(fs, Join(Root, SerialFolder(0 - 1)))

\* C15 (as claimed): a load_checkpoint call with valid arguments for a
\* serial whose checkpoint_<serial>/__model__ directory did not exist when
\* the call started does not return; it ends with a not-found error.
C15_LoadOfMissingSerialFails ==
    \A t \in Trainers :
        (/\ loc[t].op = "load"
         /\ ~InvalidLoadArgs(loc[t])
         /\ loc[t].missing
         /\ pc[t] \in {"done", "failed"})
            => /\ pc[t] = "failed"
               /\ loc[t].err \in {"NotFound", "crash"}

\* The same for the programs that have a checkpoint-eligible variable.
LoadOfMissingSerialFailsForMain ==
    \A t \in Trainers :
        (/\ loc[t].op = "load"
         /\ ~InvalidLoadArgs(loc[t])
         /\ loc[t].program = MainProgram
         /\ loc[t].missing
         /\ pc[t] \in {"done", "failed"})
            => /\ pc[t] = "failed"
               /\ loc[t].err \in {"NotFound", "crash"}

\* C16 (as claimed): a clean_checkpoint(root, delete_dir=True) call that
\* returns has removed the root, and one that finds other entries left in
\* the root ends with OSError instead of returning.
C16_CleanDeleteDirRemovesOrFails ==
    \A t \in Trainers :
        (/\ loc[t].op = "clean"
         /\ loc[t].dir = RootDir
         /\ loc[t].delete_dir)
            => /\ pc[t] = "done" => ~IsDir(fs, Root)
               /\ (pc[t] = "failed" /\ loc[t].at = "rmdir" /\ loc[t].err # "crash")
                      => /\ loc[t].err = "OSError"
                         /\ IsDir(fs, Root)
                         /\ ListDir(fs, Root) # {}

\* The places in Program of the variables that are checkpoint-eligible.
Eligible == {i \in 1..Len(Program) : _is_checkpoint_var(Program[i])}

Holds(name, sub) ==
    \E i \in 1..Len(name) :
        /\ i + Len(sub) - 1 <= Len(name)
        /\ \A k \in 1..Len(sub) : name[i + k - 1] = sub[k]

\* What C18 says _is_checkpoint_var(var) is.
ExpectedEligible(var) ==
    /\ var.type \notin {"FEED_MINIBATCH", "FETCH_LIST", "RAW"}
    /\ ~Holds(var.name, <<"@", "G", "R", "A", "D">>)
    /\ ~Holds(var.name, <<".", "t", "r", "a", "i", "n", "e", "r", "_">>)
    /\ ~Holds(var.name, <<".", "b", "l", "o", "c", "k">>)
    /\ var.persistable

TrainerMark(n, t) ==
    Join(Join(SerialPath(n), TRAINER_PREFIX \o <<CHECKPOINT_SEPARATOR>> \o PyStr(t)),
         SUCCESS_MARK_FILENAME)

\* C19: in a save_checkpoint call of the chief, a step writes below the
\* __model__ directory of the new serial only once trainer_0/_SUCCESS is
\* there, a step removes a serial directory only once the call has written
\* __model__/_SUCCESS of the new serial, and with max_num_checkpoints >= 1
\* every checkpoint that is complete stays complete over every step taken
\* before that.
C19_SaveStepsInOrder ==
    [][(StepOf(0) /\ loc[0].op = "save" /\ loc[0].serial >= 0)
           => /\ (\E p \in Written(fs, fs') : Below(p, ModelPath(loc[0].serial)))
                     => IsFile(fs, TrainerMark(loc[0].serial, 0))
              /\ SerialDirs(fs') # SerialDirs(fs) \cup SerialDirs(fs')
                     => loc[0].marked
              /\ (loc'[0].marked /\ ~loc[0].marked) => Complete(fs', loc[0].serial)
              /\ (loc[0].keep >= 1 /\ ~loc[0].marked)
                     => \A n \in Serials : Complete(fs, n) => Complete(fs', n)]_vars

\* The second save of the chief, with max_num_checkpoints = 1, has marked
\* checkpoint_1 and is about to remove the complete checkpoint_0.
C19_Witness ==
    /\ pc[0] = "remove"
    /\ loc[0].op = "save"
    /\ loc[0].serial = 1
    /\ loc[0].keep = 1
    /\ loc[0].todel = <<0>>
    /\ Complete(fs, 0)
    /\ Complete(fs, 1)

\* C20 (as claimed): when a save_checkpoint call with max_num_checkpoints
\* >= 1 has returned, by any trainer, get_latest_checkpoint_serial(root)
\* answers no less than it answered when the call started.
C20_SaveNeverLowersLatest ==
    \A t \in Trainers :
        (/\ loc[t].op = "save"
         /\ pc[t] = "done"
         /\ loc[t].keep >= 1
         /\ ~loc[t].prior.raised)
            => /\ ~Answer(fs, loc[t].dir).raised
               /\ Answer(fs, loc[t].dir).val >= loc[t].prior.val

\* C21 (as claimed): no step of a load_checkpoint call or of a
\* get_latest_checkpoint_serial call changes the directory tree: what lies
\* under the root is the same after the call as before it.
C21_LoadAndLatestReadOnly ==
    [][\A t \in Trainers :
           (StepOf(t) /\ loc'[t].op \in {"load", "latest"}) => fs' = fs]_vars

\* The part of C21 about get_latest_checkpoint_serial alone.
LatestReadOnly ==
    [][\A t \in Trainers :
           (StepOf(t) /\ loc'[t].op = "latest") => fs' = fs]_vars

\* name is checkpoint_<n> for the decimal numeral <n> of some n >= 0.
IsSerialName(name) ==
    /\ Len(name) >= 3
    /\ name[1] = "checkpoint"
    /\ name[2] = "_"
    /\ \A i \in 3..Len(name) : IsDigit(name[i])

\* What C22 says _get_dir_serial returns for a name.
ExpectedSerial(name) ==
    IF IsSerialName(name)
    THEN [raised |-> FALSE, val |-> DigitsValue(SubSeq(name, 3, Len(name)))]
    ELSE [raised |-> FALSE, val |-> 0 - 1]

\* _get_dir_serial applied to the name of the path _get_serial_dir(root, n)
\* returned gives n.
SerialNameRoundTrip ==
    \A k \in 1..Len(probe.out) :
        probe.out[k].arg.made
            => probe.out[k].res = [raised |-> FALSE, val |-> probe.out[k].arg.serial]

\* _get_serial_dir called for a directory that exists leaves the tree as it
\* is, and two calls for the same serial return the same path.
SerialDirIdempotent ==
    [][probe'.input.made
           => /\ IsDir(fs, probe'.input.path) => fs' = fs
              /\ IsDir(fs', probe'.input.path)
              /\ (probe.input.made /\ probe.input.serial = probe'.input.serial)
                     => probe'.input.path = probe.input.path]_vars

\* C22 (as claimed): _get_dir_serial applied to the name checkpoint_<n> that
\* _get_serial_dir(root, n) made returns n; applied to a name that is not
\* checkpoint_<n> it returns -1 and does not raise; and _get_serial_dir for
\* a directory that exists returns the same path and changes nothing.
C22_SerialNamesRoundTrip ==
    [][/\ \A k \in 1..Len(probe'.out) :
              /\ probe'.out[k].arg.made
                     => probe'.out[k].res
                            = [raised |-> FALSE, val |-> probe'.out[k].arg.serial]
              /\ probe'.out[k].res = ExpectedSerial(BaseName(probe'.out[k].arg.path))
       /\ probe'.input.made
              => /\ IsDir(fs, probe'.input.path) => fs' = fs
                 /\ IsDir(fs', probe'.input.path)
                 /\ (probe.input.made /\ probe.input.serial = probe'.input.serial)
                        => probe'.input.path = probe.input.path]_vars

\* The part of C22 about names that are not checkpoint_<n>.
OtherNamesGiveMinusOne ==
    \A k \in 1..Len(probe.out) :
        ~IsSerialName(BaseName(probe.out[k].arg.path))
            => probe.out[k].res = [raised |-> FALSE, val |-> 0 - 1]

\* The values load_trainer_args is to return for keys out of the dict A.
ExpectedValues(A, keys) == [i \in 1..Len(keys) |-> str(A[keys[i]])]

\* The file of argument name in the trainer directory of the call of
\* trainer t holds the str of the value the call was given for it.
ArgWritten(tree, t, name) ==
    /\ IsFile(tree, Join(TrainerDir(t), name))
    /\ Lookup(tree, Join(TrainerDir(t), name)).data = str(loc[t].args.d[name])

\* While the save_checkpoint call of trainer t is under way, the success
\* mark of its trainer directory is there only if every argument file is
\* there with its value.
MarkMeansArgsWritten(t) ==
    (/\ loc[t].op = "save"
     /\ loc[t].serial >= 0
     /\ pc[t] \notin {"done", "failed"}
     /\ IsFile(fs, TrainerMark(loc[t].serial, t)))
        => \A name \in DOMAIN loc[t].args.d : ArgWritten(fs, t, name)

\* C23 (as claimed): a load_trainer_args call for the serial and the trainer
\* of a save_checkpoint call that returned, asking for names of the dict
\* that call saved, returns the str of their values in the order asked;
\* and while a save_checkpoint call is under way, trainer_<t>/_SUCCESS of
\* its serial exists only if every argument file of its dict has been
\* written.
C23_TrainerArgsRoundTrip ==
    \A t \in Trainers :
        /\ (/\ loc[t].op = "load_args"
            /\ pc[t] \in {"done", "failed"}
            /\ loc[t].err # "crash"
            /\ Range(loc[t].keys) \subseteq DOMAIN loc[t].args.d)
               => /\ pc[t] = "done"
                  /\ loc[t].vals = ExpectedValues(loc[t].args.d, loc[t].keys)
        /\ MarkMeansArgsWritten(t)

\* The round trip for a call with max_num_checkpoints >= 1 and values
\* whose str neither starts nor ends with whitespace.
ArgsRoundTripWhenKept ==
    \A t \in Trainers :
        (/\ loc[t].op = "load_args"
         /\ pc[t] \in {"done", "failed"}
         /\ loc[t].err # "crash"
         /\ loc[t].keep >= 1
         /\ Range(loc[t].keys) \subseteq DOMAIN loc[t].args.d
         /\ \A k \in Range(loc[t].keys) :
                PyStrip(str(loc[t].args.d[k])) = str(loc[t].args.d[k]))
            => /\ pc[t] = "done"
               /\ loc[t].vals = ExpectedValues(loc[t].args.d, loc[t].keys)

\* The round trip whatever the values, for max_num_checkpoints >= 1.
ArgsRoundTripAnyValue ==
    \A t \in Trainers :
        (/\ loc[t].op = "load_args"
         /\ pc[t] \in {"done", "failed"}
         /\ loc[t].err # "crash"
         /\ loc[t].keep >= 1
         /\ Range(loc[t].keys) \subseteq DOMAIN loc[t].args.d)
            => /\ pc[t] = "done"
               /\ loc[t].vals = ExpectedValues(loc[t].args.d, loc[t].keys)

\* The part of C23 about the success mark.
MarkOnlyAfterArgs == \A t \in Trainers : MarkMeansArgsWritten(t)

\* The step that writes trainer_<t>/_SUCCESS is taken when every argument
\* file of the dict holds the str of its value.
MarkStepFollowsArgs ==
    [][\A t \in Trainers :
           (/\ loc[t].op = "save"
            /\ loc[t].serial >= 0
            /\ pc[t] = "args"
            /\ pc'[t] \notin {"args", "failed"})
               => \A name \in DOMAIN loc[t].args.d : ArgWritten(fs', t, name)]_vars

\* a comes before b in the order of names: at the first place where they
\* differ a has the lower character, or a ends there.
NameBefore(a, b) ==
    \E i \in 1..Len(b) :
        /\ \A k \in 1..(i - 1) : k <= Len(a) /\ a[k] = b[k]
        /\ \/ Len(a) = i - 1
           \/ /\ Len(a) >= i
              /\ \E x, y \in 1..Len(Ascii) : Ascii[x] = a[i] /\ Ascii[y] = b[i] /\ x < y

\* x is a copy of the variable v: it has its name and its type.
CopyOf(x, v) == x.name = v.name /\ x.type = v.type

\* The variables of a list that are not of raw type.
Remaining(varlist) == {v \in Range(varlist) : v.type # "RAW"}

\* C24: the ops of every save_vars call take no variable of raw type;
\* without a filename there is exactly one save op for each remaining
\* variable, with that variable as its input and dirname/<its name> as its
\* target, and no other op; with a filename there is exactly one op, a
\* save_combine with target dirname/<filename> whose inputs are the
\* remaining variables, each once, in the order of their names; and two
\* calls with the same variables in different orders issue the same
\* save_combine.
C24_SaveVarsOps ==
    /\ \A k \in 1..Len(probe.out) :
           LET arg == probe.out[k].arg
               ops == probe.out[k].ops
           IN  /\ \A i \in 1..Len(ops) : \A j \in 1..Len(ops[i].X) :
                      ops[i].X[j].type # "RAW"
               /\ arg.filename.isnone
                      => /\ \A v \in Remaining(arg.vars) :
                                Cardinality({i \in 1..Len(ops) :
                                    /\ ops[i].type = "save"
                                    /\ Len(ops[i].X) = 1
                                    /\ CopyOf(ops[i].X[1], v)
                                    /\ ops[i].file_path
                                           = Append(arg.dirname, v.name)})
                                    = 1
                         /\ Len(ops) = Cardinality(Remaining(arg.vars))
               /\ ~arg.filename.isnone
                      => /\ Len(ops) = 1
                         /\ ops[1].type = "save_combine"
                         /\ ops[1].file_path = Append(arg.dirname, arg.filename.name)
                         /\ \A v \in Remaining(arg.vars) :
                                \E i \in 1..Len(ops[1].X) : CopyOf(ops[1].X[i], v)
                         /\ Len(ops[1].X) = Cardinality(Remaining(arg.vars))
                         /\ \A i, j \in 1..Len(ops[1].X) :
                                i < j => NameBefore(ops[1].X[i].name, ops[1].X[j].name)
    /\ \A j, k \in 1..Len(probe.out) :
           (/\ ~probe.out[j].arg.filename.isnone
            /\ Range(probe.out[j].arg.vars) = Range(probe.out[k].arg.vars))
               => probe.out[j].ops = probe.out[k].ops

\* save_vars has been called with the filename "all" on w, r, b2, b and
\* then on the same variables as b, b2, r, w: both calls issued one
\* save_combine of b, b2, w.
C24_Witness ==
    /\ Len(probe.out) = 2
    /\ ~probe.input.filename.isnone
    /\ Len(probe.input.vars) = 4
    /\ [i \in 1..4 |-> probe.out[1].arg.vars[i].name]
           = << <<"w">>, <<"r">>, <<"b", "2">>, <<"b">> >>
    /\ [i \in 1..4 |-> probe.out[2].arg.vars[i].name]
           = << <<"b">>, <<"b", "2">>, <<"r">>, <<"w">> >>
    /\ Len(probe.out[2].ops) = 1
    /\ [i \in 1..3 |-> probe.out[2].ops[1].X[i].name]
           = << <<"b">>, <<"b", "2">>, <<"w">> >>
====
